---- MODULE Spec2Model ----
(***************************************************************************)
(* Trigger/frame reconciliation of iox2_gsml_time_sync.                    *)
(*                                                                         *)
(* Three programs share one iceoryx2 service "Camera/Sync":                *)
(*   publisher.rs     publishes CameraTrigger = (id, hw_ts, pub_ts);       *)
(*   subscriber.rs    the pull variant: drains the bus, sleeps, stamps a   *)
(*                    simulated frame and matches it;                      *)
(*   v4l2_capture.rs  the push variant: CameraApp::capture_frame, called   *)
(*                    once per GUI update, drains the bus, takes a camera  *)
(*                    frame and calls sync_frame_with_trigger.             *)
(*                                                                         *)
(* Timestamps.  The programs hold nanoseconds in u64 and score in f64      *)
(* milliseconds (ns as f64 / 1_000_000.0).  The model holds timestamps in  *)
(* whole milliseconds: a timestamp t of the model is the u64 value         *)
(* t * 1_000_000 of the program.  On such values the division is exact,    *)
(* the doubling of a score is exact, and every f64 comparison of the       *)
(* matcher agrees with the integer comparison made here.  An unsigned      *)
(* subtraction a - b with a < b is kept as a U64Sub record whose overflow  *)
(* flag is set: the program either panics there (overflow checks on) or    *)
(* continues with the value wrapped modulo 2^64 (overflow checks off).     *)
(*                                                                         *)
(* Stopping.  subscriber.rs leaves main on an error (pc = "failed").       *)
(* CameraApp keeps running: update calls capture_frame only while          *)
(* is_running, an error of capture_frame clears is_running, and the        *)
(* Start/Stop button toggles it.                                           *)
(***************************************************************************)
EXTENDS Integers, Sequences, FiniteSets, TLC

VARIABLES
    variant,           \* "pull" (subscriber.rs) or "push" (v4l2_capture.rs)
    skip_ratio,        \* CameraApp.skip_ratio (1 in the pull variant)
    pc,                \* position of the reconciliation loop
    pending_triggers,  \* VecDeque<CameraTrigger>
    trigger_count,     \* CameraApp.trigger_count: frames taken so far
    history_count,     \* triggers counted by the startup drain
    bus,               \* samples delivered to the subscriber, not yet received
    global_trigger_id, \* publisher.rs: id of the last published trigger
    out,               \* what the last step of the loop reported
    received,          \* id of every trigger receive() has returned, in order
    run,               \* ids handed to push_back since the last match, in order
    is_running,        \* CameraApp.is_running (TRUE in the pull variant)
    last_synced,       \* trigger id of the last SYNCED record, 0 before the first
    twin               \* the pull loop fed what the push variant is fed

vars == <<variant, skip_ratio, pc, pending_triggers, trigger_count,
          history_count, bus, global_trigger_id, out, received, run,
          is_running, last_synced, twin>>

(***************************************************************************)
(* Program constants.                                                      *)
(***************************************************************************)
MAX_PENDING == 100
TOLERANCE_MS == 500
FUTURE_PENALTY == 2
F64_MAX == 2147483647
TRIGGER_INTERVAL_MS == 33
INPUT_FPS == 30

(***************************************************************************)
(* Bounds of the model.                                                    *)
(***************************************************************************)
MaxPublished == 103   \* triggers one publisher run sends on its cadence
MaxBurst == 3         \* triggers one publisher run sends when its clock jumps
MaxInFlight == 5      \* triggers sent and not yet received, on the cadence
MaxFrames == 2        \* frames the push variant takes in one run

\* The publisher's clock reading at its first trigger: late enough for every
\* frame stamp to stay positive.
T0 == 2 * TOLERANCE_MS
HwTimes == {1000, 1033, 1067, 1075, 2000, 5000}
\* The two clock readings of one publisher iteration, <<hw_ts, pub_ts>>: the
\* same millisecond, a publish reading 60 ms later, a clock stepped back.
Stamps == {<<hw_ts, hw_ts>> : hw_ts \in HwTimes} \cup {<<1000, 1060>>, <<1100, 1099>>}
FrameTimes == {1050, 1500, 2700, 4990}
FrameSkews == {17, -50, 600}
OutputFps == {30, 15}

Variants == {"pull", "push"}

(***************************************************************************)
(* CameraTrigger = (u64, u64, u64): (frame_id, hardware_timestamp_ns,      *)
(* publish_timestamp_ns).                                                  *)
(***************************************************************************)
CameraTrigger(id, hw_ts, pub_ts) == <<id, hw_ts, pub_ts>>
IdOf(t) == t[1]
HwOf(t) == t[2]
PubOf(t) == t[3]
Ids(q) == [i \in 1..Len(q) |-> IdOf(q[i])]

(***************************************************************************)
(* CameraApp::new: the frame skip ratio, (30 / output_fps).round() with    *)
(* halves rounded up, for an output rate above 0.                          *)
(***************************************************************************)
SkipRatio(output_fps) ==
    IF output_fps >= INPUT_FPS THEN 1
    ELSE (2 * INPUT_FPS + output_fps) \div (2 * output_fps)

(***************************************************************************)
(* The matcher: the scoring loop of subscriber.rs main and of              *)
(* CameraApp::sync_frame_with_trigger.                                     *)
(***************************************************************************)
TimeDiff(v4l2_ts, hw_ts) ==
    IF v4l2_ts > hw_ts THEN v4l2_ts - hw_ts ELSE hw_ts - v4l2_ts

IsPastTrigger(v4l2_ts, hw_ts) == hw_ts < v4l2_ts

\* Faulty variant of Score, used to test the properties: a future trigger is scored like a past one.
ScoreNoPenalty(v4l2_ts, hw_ts) == TimeDiff(v4l2_ts, hw_ts)

Score(v4l2_ts, hw_ts) ==
    IF IsPastTrigger(v4l2_ts, hw_ts)
    THEN TimeDiff(v4l2_ts, hw_ts)
    ELSE TimeDiff(v4l2_ts, hw_ts) * FUTURE_PENALTY

\* Faulty variant of WithinTolerance, used to test the properties: the tolerance includes 500 ms.
WithinToleranceInclusive(time_diff_ms) == time_diff_ms <= TOLERANCE_MS

WithinTolerance(time_diff_ms) == time_diff_ms < TOLERANCE_MS

\* Faulty variant of Improves, used to test the properties: a later candidate of the same score replaces the best.
ImprovesOrTies(score, best_score) == score <= best_score

Improves(score, best_score) == score < best_score

\* One iteration of the scoring loop, on the trigger at index (0-based as in
\* the program).  best is the pair of best_match_index and best_score before
\* the iteration, the result is the pair after it; best_match_index = -1
\* stands for None.
Visit(q, v4l2_ts, index, best) ==
    LET hw_ts == HwOf(q[index + 1])
        score == Score(v4l2_ts, hw_ts)
    IN  IF Improves(score, best.best_score)
           /\ WithinTolerance(TimeDiff(v4l2_ts, hw_ts))
        THEN [best_match_index |-> index, best_score |-> score]
        ELSE best

\* The scoring loop over the indices from .. to - 1, front to back, started
\* with best.  A range of several indices is its first half followed by its
\* second half started with the result of the first: the iterations and
\* their order are those of the loop.
RECURSIVE Scan(_, _, _, _, _)
Scan(q, v4l2_ts, from, to, best) ==
    IF to <= from
    THEN best
    ELSE IF to = from + 1
    THEN Visit(q, v4l2_ts, from, best)
    ELSE CHOOSE after \in
             { Scan(q, v4l2_ts, (from + to) \div 2, to, half) :
                 half \in { Scan(q, v4l2_ts, from, (from + to) \div 2, best) } } :
             TRUE

\* Faulty variant of BestMatch, used to test the properties: the first trigger within tolerance is taken.
BestMatchFirstFit(q, v4l2_ts) ==
    LET fit == {i \in 1..Len(q) : TimeDiff(v4l2_ts, HwOf(q[i])) < TOLERANCE_MS}
    IN  IF fit = {}
        THEN [best_match_index |-> -1, best_score |-> F64_MAX]
        ELSE LET i == CHOOSE i \in fit : \A j \in fit : i <= j
             IN  [best_match_index |-> i - 1,
                  best_score |-> Score(v4l2_ts, HwOf(q[i]))]

\* let mut best_match_index = None; let mut best_score = f64::MAX; for ...
BestMatch(q, v4l2_ts) ==
    Scan(q, v4l2_ts, 0, Len(q), [best_match_index |-> -1, best_score |-> F64_MAX])

\* Faulty variant of RemoveAt, used to test the properties: the matched trigger stays in the queue.
RemoveAtNone(q, match_index) == q

\* pending_triggers.remove(match_index)
RemoveAt(q, match_index) ==
    [i \in 1..(Len(q) - 1) |-> IF i <= match_index THEN q[i] ELSE q[i + 1]]

\* Faulty variant of PopFront, used to test the properties: the triggers are popped at the back.
PopBack(q, n) ==
    IF n >= Len(q) THEN <<>> ELSE SubSeq(q, 1, Len(q) - n)

\* for _ in 0..removed_old_count { pending_triggers.pop_front() }: n times
\* pop_front, each a no-op on an empty queue.
PopFront(q, n) ==
    IF n >= Len(q) THEN <<>> ELSE SubSeq(q, n + 1, Len(q))

\* Faulty variant of Cleanup, used to test the properties: the older triggers are left in the queue.
CleanupMatchedOnly(q, match_index) == RemoveAt(q, match_index)

\* Faulty variant of Cleanup, used to test the properties: the triggers after the match leave, the older ones stay.
CleanupKeepOlder(q, match_index) == SubSeq(q, 1, match_index)

Cleanup(q, match_index) == PopFront(RemoveAt(q, match_index), match_index)

\* u64 subtraction a - b.  The program's result is value when overflow is
\* FALSE; when it is TRUE the subtraction panics under overflow checks and
\* yields value + 2^64 without them.
U64Sub(a, b) == [overflow |-> a < b, value |-> a - b]

TriggerType(v4l2_ts, hw_ts) == IF hw_ts < v4l2_ts THEN "PAST" ELSE "FUTURE"

\* What one step of the loop reports.  kind names the line printed: "none",
\* "HISTORICAL", "DRAINED", "RECEIVED", "SYNCED", "WARNING" (unmatched
\* frame), "SKIPPED", "ERROR"; "PANIC" is a match whose record was never
\* printed because an unsigned subtraction aborted the process.  dropped is
\* the id of "WARNING: Dropped old trigger", 0 when no such line was printed;
\* history_count is the count of the "Drained ..." line.
NoOutput ==
    [kind |-> "none", v4l2_ts |-> 0, match_index |-> -1, best_score |-> F64_MAX,
     trigger |-> <<0, 0, 0>>, trigger_type |-> "none",
     total_latency_ms |-> U64Sub(0, 0), v4l2_delay_ms |-> U64Sub(0, 0),
     removed_old_count |-> 0, dropped |-> 0, history_count |-> 0]

Report(kind) == [NoOutput EXCEPT !.kind = kind]

MatchOutput(kind, v4l2_ts, m, t) ==
    [NoOutput EXCEPT
        !.kind = kind, !.v4l2_ts = v4l2_ts,
        !.match_index = m.best_match_index, !.best_score = m.best_score,
        !.trigger = t, !.trigger_type = TriggerType(v4l2_ts, HwOf(t)),
        !.total_latency_ms = U64Sub(v4l2_ts, HwOf(t)),
        !.v4l2_delay_ms = U64Sub(v4l2_ts, PubOf(t)),
        !.removed_old_count = m.best_match_index]

Unmatched(v4l2_ts) == [NoOutput EXCEPT !.kind = "WARNING", !.v4l2_ts = v4l2_ts]

Skipped(v4l2_ts) == [NoOutput EXCEPT !.kind = "SKIPPED", !.v4l2_ts = v4l2_ts]

\* Faulty variant of KeepQueue, used to test the properties: an unmatched frame drops the oldest trigger.
KeepQueueDropFront(q) == IF q = <<>> THEN q ELSE Tail(q)

\* The queue after a frame with no match.
KeepQueue(q) == q

\* if let Some(match_index) = best_match_index { ... }: the matched trigger
\* and the ones before it leave the queue, then the record is computed.
Matched(m, v4l2_ts) ==
    \E t \in {pending_triggers[m.best_match_index + 1]} :
        /\ pending_triggers' = Cleanup(pending_triggers, m.best_match_index)
        /\ run' = <<>>
        /\ \/ /\ out' = MatchOutput("SYNCED", v4l2_ts, m, t)
              /\ last_synced' = IdOf(t)
              /\ pc' = "ingest"
           \/ /\ U64Sub(v4l2_ts, HwOf(t)).overflow
                 \/ U64Sub(v4l2_ts, PubOf(t)).overflow
              /\ out' = MatchOutput("PANIC", v4l2_ts, m, t)
              /\ last_synced' = last_synced
              /\ pc' = "panicked"

\* else { println!("WARNING: V4L2 frame at ...") }
NotMatched(v4l2_ts) ==
    /\ pending_triggers' = KeepQueue(pending_triggers)
    /\ run' = run
    /\ out' = Unmatched(v4l2_ts)
    /\ last_synced' = last_synced
    /\ pc' = "ingest"

\* The matching block: sets pending_triggers, run, out, last_synced and pc.
SyncFrameWithTrigger(v4l2_ts) ==
    \E m \in {BestMatch(pending_triggers, v4l2_ts)} :
        IF m.best_match_index >= 0
        THEN Matched(m, v4l2_ts)
        ELSE NotMatched(v4l2_ts)

(***************************************************************************)
(* The pending queue's push path.                                          *)
(***************************************************************************)
Overflows(q) == Len(q) > MAX_PENDING

PushBack(q, t) == Append(q, t)

\* if pending_triggers.len() > 100 { pending_triggers.pop_front() }
PopOverflow(q) == IF Overflows(q) THEN Tail(q) ELSE q

\* The live loop: push_back, then pop_front when the length exceeds the cap.
LivePush(t) ==
    LET q == PushBack(pending_triggers, t)
    IN  /\ run' = Append(run, IdOf(t))
        /\ IF Overflows(q)
           THEN /\ pending_triggers' = PopOverflow(q)
                /\ out' = [Report("RECEIVED") EXCEPT
                               !.trigger = t, !.dropped = IdOf(Head(q))]
           ELSE /\ pending_triggers' = q
                /\ out' = [Report("RECEIVED") EXCEPT !.trigger = t]

\* The startup drain: subscriber.rs pushes without a cap, CameraApp::initialize
\* counts the sample and lets it go.
ReplayPush(t) ==
    /\ history_count' = history_count + 1
    /\ IF variant = "pull"
       THEN /\ pending_triggers' = PushBack(pending_triggers, t)
            /\ run' = Append(run, IdOf(t))
            /\ out' = [Report("HISTORICAL") EXCEPT !.trigger = t]
       ELSE /\ out' = NoOutput
            /\ UNCHANGED <<pending_triggers, run>>

(***************************************************************************)
(* The pull loop of subscriber.rs run beside the push variant: twin holds  *)
(* the queue subscriber.rs would hold, and the outcome it would report for *)
(* the last frame, had it received the same triggers in the same phases    *)
(* and stamped the same frames.  twin.on is FALSE when no such loop is     *)
(* run, and after an error or a panic of subscriber.rs, which ends it.     *)
(***************************************************************************)
TwinOff == [on |-> FALSE, pending_triggers |-> <<>>, out |-> NoOutput]

TwinOn == [on |-> TRUE, pending_triggers |-> <<>>, out |-> NoOutput]

\* a step of the loop that takes neither a trigger nor a frame
TwinIdle(tw) == [tw EXCEPT !.out = NoOutput]

\* subscriber.receive()? returned an error: `?` returns it from main
TwinReceiveError(tw) == TwinOff

\* duration_since()? returned an error: subscriber.rs reads the clock only
\* for a frame, and takes a frame only when a trigger is pending
TwinClockError(tw) ==
    IF tw.on /\ tw.pending_triggers # <<>> THEN TwinOff ELSE TwinIdle(tw)

\* subscriber.rs startup drain: push_back, no cap
TwinReplayPush(tw, t) ==
    IF tw.on
    THEN [tw EXCEPT !.pending_triggers = PushBack(@, t), !.out = NoOutput]
    ELSE TwinIdle(tw)

\* subscriber.rs live loop: push_back, then the cap
TwinLivePush(tw, t) ==
    IF tw.on
    THEN [tw EXCEPT !.pending_triggers = PopOverflow(PushBack(@, t)),
                    !.out = NoOutput]
    ELSE TwinIdle(tw)

\* if let Some(match_index) = best_match_index { ... } of subscriber.rs: the
\* match and the triggers before it leave the queue, then the record is
\* computed.  As in Matched, a subtraction that overflows either aborts
\* subscriber.rs (the loop is gone: on is FALSE) or wraps and the record is
\* printed.
TwinMatched(tw, m, v4l2_ts) ==
    LET q == tw.pending_triggers
        t == q[m.best_match_index + 1]
        synced == [tw EXCEPT
                      !.pending_triggers = Cleanup(q, m.best_match_index),
                      !.out = MatchOutput("SYNCED", v4l2_ts, m, t)]
        panicked == [synced EXCEPT
                        !.on = FALSE,
                        !.out = MatchOutput("PANIC", v4l2_ts, m, t)]
    IN  IF U64Sub(v4l2_ts, HwOf(t)).overflow \/ U64Sub(v4l2_ts, PubOf(t)).overflow
        THEN {synced, panicked}
        ELSE {synced}

\* else { println!("WARNING: V4L2 frame at ...") } of subscriber.rs
TwinNotMatched(tw, v4l2_ts) ==
    [tw EXCEPT !.pending_triggers = KeepQueue(@), !.out = Unmatched(v4l2_ts)]

\* subscriber.rs takes a frame only when a trigger is pending; the matching
\* block then removes the match and the triggers before it, or reports the
\* frame unmatched.  The set of the states the pull loop can be in after the
\* frame.
TwinFrame(tw, v4l2_ts) ==
    IF tw.on /\ tw.pending_triggers # <<>>
    THEN UNION { IF m.best_match_index >= 0
                 THEN TwinMatched(tw, m, v4l2_ts)
                 ELSE {TwinNotMatched(tw, v4l2_ts)} :
                   m \in {BestMatch(tw.pending_triggers, v4l2_ts)} }
    ELSE {TwinIdle(tw)}

(***************************************************************************)
(* The publisher and the bus.                                              *)
(***************************************************************************)
\* Faulty variant of Send, used to test the properties: the id is written before it is incremented.
SendIdBeforeIncrement(hw_ts, pub_ts) ==
    /\ global_trigger_id' = global_trigger_id + 1
    /\ bus' = Append(bus, CameraTrigger(global_trigger_id, hw_ts, pub_ts))
    /\ UNCHANGED <<variant, skip_ratio, pc, pending_triggers, trigger_count,
                   history_count, out, received, run, is_running, last_synced,
                   twin>>

\* One iteration of the publisher: global_trigger_id += 1, the two clock
\* readings, sample.send().  The publisher does not wait for the subscriber:
\* the sample joins the samples delivered and not yet received.
Send(hw_ts, pub_ts) ==
    /\ global_trigger_id' = global_trigger_id + 1
    /\ bus' = Append(bus, CameraTrigger(global_trigger_id + 1, hw_ts, pub_ts))
    /\ UNCHANGED <<variant, skip_ratio, pc, pending_triggers, trigger_count,
                   history_count, out, received, run, is_running, last_synced,
                   twin>>

\* publisher.rs on its cadence: the iteration's own work takes less than a
\* millisecond, so that the clock reads TRIGGER_INTERVAL_MS more at every
\* iteration and both readings of an iteration fall in the same millisecond.
\* The publisher sends whatever the subscriber does; MaxInFlight bounds the
\* samples the model lets wait on the bus.
PublishCadence ==
    /\ global_trigger_id < MaxPublished
    /\ Len(bus) < MaxInFlight
    /\ \E hw_ts \in {T0 + global_trigger_id * TRIGGER_INTERVAL_MS} :
          Send(hw_ts, hw_ts)

\* publisher.rs under a clock that is stepped between readings.
PublishJitter ==
    /\ global_trigger_id < MaxBurst
    /\ \E st \in Stamps : Send(st[1], st[2])

(***************************************************************************)
(* The reconciliation loop.                                                *)
(***************************************************************************)
\* while let Some(trigger) = subscriber.receive()? { ... } of the startup drain
ReplayReceive ==
    /\ pc = "replay"
    /\ bus # <<>>
    /\ ReplayPush(Head(bus))
    /\ twin' = TwinReplayPush(twin, Head(bus))
    /\ received' = Append(received, IdOf(Head(bus)))
    /\ bus' = Tail(bus)
    /\ UNCHANGED <<variant, skip_ratio, pc, trigger_count, global_trigger_id,
                   is_running, last_synced>>

\* receive() returned None: the count is reported, not used again, and the
\* live loop is next: subscriber.rs enters it, CameraApp waits for the Start
\* button (is_running is still FALSE)
ReplayDone ==
    /\ pc = "replay"
    /\ bus = <<>>
    /\ pc' = "ingest"
    /\ out' = [Report("DRAINED") EXCEPT !.history_count = history_count]
    /\ history_count' = 0
    /\ twin' = TwinIdle(twin)
    /\ UNCHANGED <<variant, skip_ratio, pending_triggers, trigger_count, bus,
                   global_trigger_id, received, run, is_running, last_synced>>

\* while let Some(trigger) = subscriber.receive()? { ... } of the live loop
LiveReceive ==
    /\ pc = "ingest"
    /\ is_running
    /\ bus # <<>>
    /\ LivePush(Head(bus))
    /\ twin' = TwinLivePush(twin, Head(bus))
    /\ received' = Append(received, IdOf(Head(bus)))
    /\ bus' = Tail(bus)
    /\ UNCHANGED <<variant, skip_ratio, pc, trigger_count, history_count,
                   global_trigger_id, is_running, last_synced>>

\* receive() returned None.  subscriber.rs goes on to a frame only when a
\* trigger is pending (otherwise it sleeps 10 ms and polls again);
\* capture_frame always goes on to camera.frame().
IngestDone ==
    /\ pc = "ingest"
    /\ is_running
    /\ bus = <<>>
    /\ variant = "pull" => pending_triggers # <<>>
    /\ variant = "push" => trigger_count < MaxFrames
    /\ pc' = "capture"
    /\ out' = NoOutput
    /\ twin' = TwinIdle(twin)
    /\ UNCHANGED <<variant, skip_ratio, pending_triggers, trigger_count,
                   history_count, bus, global_trigger_id, received, run,
                   is_running, last_synced>>

\* subscriber.rs: the sleep is over, the frame is stamped and matched.
PullFrame(v4l2_ts) ==
    /\ pc = "capture"
    /\ variant = "pull"
    /\ SyncFrameWithTrigger(v4l2_ts)
    /\ UNCHANGED <<variant, skip_ratio, trigger_count, history_count, bus,
                   global_trigger_id, received, is_running, twin>>

\* capture_frame: camera.frame() returned, the frame is stamped, counted and,
\* unless skipped, matched.
PushFrame(v4l2_ts) ==
    /\ pc = "capture"
    /\ variant = "push"
    /\ trigger_count' = trigger_count + 1
    /\ IF (trigger_count + 1) % skip_ratio = 0
       THEN SyncFrameWithTrigger(v4l2_ts)
       ELSE /\ out' = Skipped(v4l2_ts)
            /\ pc' = "ingest"
            /\ UNCHANGED <<pending_triggers, run, last_synced>>
    /\ twin' \in TwinFrame(twin, v4l2_ts)
    /\ UNCHANGED <<variant, skip_ratio, history_count, bus, global_trigger_id,
                   received, is_running>>

\* Faulty variant of Stop, used to test the properties: the error is reported and the loop goes on.
StopAndGoOn ==
    /\ out' = Report("ERROR")
    /\ history_count' = 0
    /\ pc' = (IF pc = "replay" THEN "replay" ELSE "ingest")
    /\ is_running' = is_running

\* An Err leaves the loop.  subscriber.rs: `?` returns it from main.
\* CameraApp: new() and update() put it in sync_info, update() clears
\* is_running, and the next capture_frame starts at its drain.  The count of
\* the startup drain is a local of the function the error leaves.
Stop ==
    /\ out' = Report("ERROR")
    /\ history_count' = 0
    /\ IF variant = "pull"
       THEN pc' = "failed" /\ is_running' = is_running
       ELSE pc' = "ingest" /\ is_running' = FALSE

\* subscriber.receive()? returned an error: both loops are on the same bus
ReceiveError ==
    /\ pc \in {"replay", "ingest"}
    /\ pc = "ingest" => is_running
    /\ Stop
    /\ twin' = TwinReceiveError(twin)
    /\ UNCHANGED <<variant, skip_ratio, pending_triggers, trigger_count, bus,
                   global_trigger_id, received, run, last_synced>>

\* camera.frame()? returned an error.  Only v4l2_capture.rs has a camera:
\* the step is no input of subscriber.rs.
CameraError ==
    /\ pc = "capture"
    /\ variant = "push"
    /\ Stop
    /\ twin' = TwinIdle(twin)
    /\ UNCHANGED <<variant, skip_ratio, pending_triggers, trigger_count, bus,
                   global_trigger_id, received, run, last_synced>>

\* SystemTime::now().duration_since(UNIX_EPOCH)? returned an error at the
\* frame stamp
ClockError ==
    /\ pc = "capture"
    /\ Stop
    /\ twin' = TwinClockError(twin)
    /\ UNCHANGED <<variant, skip_ratio, pending_triggers, trigger_count, bus,
                   global_trigger_id, received, run, last_synced>>

\* the frame was not taken or not stamped
CaptureError == CameraError \/ ClockError

\* CameraApp::update: the Start/Stop button was clicked between two calls of
\* capture_frame.
ToggleCapture ==
    /\ variant = "push"
    /\ pc = "ingest"
    /\ is_running' = ~is_running
    /\ UNCHANGED <<variant, skip_ratio, pc, pending_triggers, trigger_count,
                   history_count, bus, global_trigger_id, out, received, run,
                   last_synced, twin>>

\* The Start button: the click that sets is_running.
StartCapture == ~is_running /\ ToggleCapture

\* The frame stamp when the publisher keeps its cadence: the time the next
\* trigger is due plus the skew of the capture clock.
CadenceStamp(skew) == T0 + global_trigger_id * TRIGGER_INTERVAL_MS + skew

Init ==
    /\ variant \in Variants
    /\ skip_ratio \in (IF variant = "push"
                       THEN {SkipRatio(fps) : fps \in OutputFps} ELSE {1})
    /\ pc = "replay"
    /\ pending_triggers = <<>>
    /\ trigger_count = 0
    /\ history_count = 0
    /\ bus = <<>>
    /\ global_trigger_id = 0
    /\ out = NoOutput
    /\ received = <<>>
    /\ run = <<>>
    /\ is_running = (variant = "pull")
    /\ last_synced = 0
    /\ twin = TwinOff

Loop ==
    \/ ReplayReceive
    \/ ReplayDone
    \/ LiveReceive
    \/ IngestDone
    \/ ReceiveError
    \/ CaptureError
    \/ ToggleCapture

\* Both programs started without arguments: output_fps is 30 and no frame
\* is skipped.
InitCadence == Init /\ skip_ratio = SkipRatio(INPUT_FPS)

\* The programs at the scale of the cap: the publisher on its cadence, no
\* collaborator fails and capture, once started, is not stopped.
Next ==
    \/ PublishCadence
    \/ ReplayReceive
    \/ ReplayDone
    \/ StartCapture
    \/ LiveReceive
    \/ IngestDone
    \/ \E skew \in FrameSkews : PullFrame(CadenceStamp(skew))
    \/ \E skew \in FrameSkews : PushFrame(CadenceStamp(skew))

Spec == InitCadence /\ [][Next]_vars

\* The programs under arbitrary trigger and frame stamps, errors of the
\* collaborators and clicks of the Start/Stop button.
NextMatch ==
    \/ PublishJitter
    \/ Loop
    \/ \E v4l2_ts \in FrameTimes : PullFrame(v4l2_ts)
    \/ \E v4l2_ts \in FrameTimes : PushFrame(v4l2_ts)

SpecMatch == Init /\ [][NextMatch]_vars

\* The push variant and, beside it, the pull loop on the same inputs.
InitPair ==
    /\ variant = "push"
    /\ skip_ratio \in {SkipRatio(fps) : fps \in OutputFps}
    /\ pc = "replay"
    /\ pending_triggers = <<>>
    /\ trigger_count = 0
    /\ history_count = 0
    /\ bus = <<>>
    /\ global_trigger_id = 0
    /\ out = NoOutput
    /\ received = <<>>
    /\ run = <<>>
    /\ is_running = FALSE
    /\ last_synced = 0
    /\ twin = TwinOn

NextPair ==
    \/ PublishJitter
    \/ Loop
    \/ \E v4l2_ts \in FrameTimes : PushFrame(v4l2_ts)

SpecPair == InitPair /\ [][NextPair]_vars

(***************************************************************************)
(* Vocabulary of the properties.  The eligibility and the score of a       *)
(* trigger are restated here from the specification, independently of the  *)
(* operators of the matcher above.                                         *)
(***************************************************************************)
Abs(x) == IF x < 0 THEN -x ELSE x

\* |frame_ts - hw_ts| < 500 ms
Eligible(q, i, frame_ts) == Abs(frame_ts - q[i][2]) < 500

\* delta for hw_ts < frame_ts, 2 x delta otherwise
ScoreOf(q, i, frame_ts) ==
    IF q[i][2] < frame_ts THEN frame_ts - q[i][2] ELSE 2 * (q[i][2] - frame_ts)

\* A step in which a frame was scored against the queue.
FrameScored == pc = "capture" /\ out'.kind \in {"SYNCED", "PANIC", "WARNING"}

\* A step in which a frame was scored and a trigger matched.
FrameMatched == pc = "capture" /\ out'.kind \in {"SYNCED", "PANIC"}

\* 1-based position in q of the trigger the step matched.
MatchedAt(q, t) == CHOOSE i \in 1..Len(q) : q[i] = t

\* C1: in every reachable state, Replay and Live, pull and push, the pending
\* queue holds at most 100 triggers.
C1_QueueBound == Len(pending_triggers) <= 100

\* C2: a frame is matched if and only if some queued trigger is within
\* 500 ms of it, and the matched trigger's score is the least score of the
\* eligible triggers of the queue.
C2_BestEligible ==
    [][FrameScored =>
        LET q == pending_triggers
            ts == out'.v4l2_ts
        IN  /\ (out'.kind # "WARNING") <=> (\E i \in 1..Len(q) : Eligible(q, i, ts))
            /\ out'.kind # "WARNING" =>
                  \E k \in 1..Len(q) :
                      /\ q[k] = out'.trigger
                      /\ Eligible(q, k, ts)
                      /\ out'.best_score = ScoreOf(q, k, ts)
                      /\ \A j \in 1..Len(q) :
                            Eligible(q, j, ts) => ScoreOf(q, k, ts) <= ScoreOf(q, j, ts)
    ]_vars

\* Scenario A: hw 1_000_000_000 and 1_033_000_000 pending, frame at
\* 1_050_000_000: id 2 is matched with score 17 ms and id 1 is cleaned.
C2_Witness ==
    /\ out.kind = "SYNCED"
    /\ out.v4l2_ts = 1050
    /\ out.trigger = <<2, 1033, 1033>>
    /\ out.best_score = 17
    /\ out.removed_old_count = 1
    /\ received = <<1, 2>>

\* C3: a trigger 500 ms or more away from the frame is never the matched
\* one, and when every queued trigger is that far away the frame is reported
\* unmatched and the queue is left as it was.
C3_Tolerance ==
    [][FrameScored =>
        LET q == pending_triggers
            ts == out'.v4l2_ts
        IN  /\ out'.kind # "WARNING" => Abs(ts - out'.trigger[2]) < 500
            /\ (\A i \in 1..Len(q) : Abs(ts - q[i][2]) >= 500) =>
                  /\ out'.kind = "WARNING"
                  /\ pending_triggers' = q
    ]_vars

\* Scenario B: one trigger at hw 2_000_000_000, frame at 2_700_000_000: no
\* match, the trigger stays queued.
C3_Witness ==
    /\ out.kind = "WARNING"
    /\ out.v4l2_ts = 2700
    /\ Len(pending_triggers) = 1
    /\ pending_triggers[1][2] = 2000

\* C4: after a match of the element at index k the queue is exactly the
\* elements that were after it, in order, and the record's cleaned count is
\* the number of elements that were before it.
C4_CleanupExact ==
    [][FrameMatched =>
        LET q == pending_triggers
            k == MatchedAt(q, out'.trigger)
        IN  /\ pending_triggers' = SubSeq(q, k + 1, Len(q))
            /\ out'.kind = "SYNCED" => out'.removed_old_count = k - 1
    ]_vars

\* A match in the middle of the queue: one trigger cleaned, one left.
C4_Witness ==
    /\ out.kind = "SYNCED"
    /\ out.removed_old_count = 1
    /\ Len(pending_triggers) = 1
    /\ pending_triggers[1][1] > out.trigger[1]

\* C5: when no queued trigger is within tolerance of the frame (the queue
\* may be empty), the queue after the attempt is the queue before it and an
\* unmatched-frame warning is reported instead of a record.
C5_NoMatchNoMutation ==
    [][(FrameScored /\ \A i \in 1..Len(pending_triggers) :
                           ~Eligible(pending_triggers, i, out'.v4l2_ts)) =>
        /\ pending_triggers' = pending_triggers
        /\ out'.kind = "WARNING"
    ]_vars

\* An unmatched frame with two triggers left in the queue.
C5_Witness ==
    /\ out.kind = "WARNING"
    /\ Len(pending_triggers) = 2
    /\ pc = "ingest"

\* C6: among eligible triggers of the same minimal score the one at the
\* lowest queue index is matched.
C6_TieBreak ==
    [][FrameMatched =>
        LET q == pending_triggers
            ts == out'.v4l2_ts
            k == MatchedAt(q, out'.trigger)
        IN  \A j \in 1..Len(q) :
                (Eligible(q, j, ts) /\ ScoreOf(q, j, ts) = ScoreOf(q, k, ts)) => k <= j
    ]_vars

\* A match that left behind a later trigger of the same score: a past
\* trigger 50 ms before the frame, a future one 25 ms after it.
C6_Witness ==
    /\ out.kind = "SYNCED"
    /\ \E i \in 1..Len(pending_triggers) :
          /\ Eligible(pending_triggers, i, out.v4l2_ts)
          /\ ScoreOf(pending_triggers, i, out.v4l2_ts) = out.best_score
          /\ pending_triggers[i][2] # out.trigger[2]

\* C7: with a past and a future trigger at the same distance from the frame,
\* both within tolerance, the future one is not the one matched, whichever of
\* the two was inserted first.
C7_PastPreferred ==
    [][FrameScored =>
        LET q == pending_triggers
            ts == out'.v4l2_ts
        IN  \A i, j \in 1..Len(q) :
                (/\ q[i][2] < ts
                 /\ q[j][2] > ts
                 /\ ts - q[i][2] = q[j][2] - ts
                 /\ ts - q[i][2] < 500)
                => /\ out'.kind # "WARNING"
                   /\ out'.trigger # q[j]
    ]_vars

\* The past trigger 17 ms before the frame was matched and the future one
\* 17 ms after it is still queued.
C7_Witness ==
    /\ out.kind = "SYNCED"
    /\ out.trigger_type = "PAST"
    /\ \E i \in 1..Len(pending_triggers) :
          pending_triggers[i][2] - out.v4l2_ts = out.v4l2_ts - out.trigger[2]

\* C8: a match of a trigger later than the frame yields a FUTURE record
\* whose score is twice the distance and whose latency is the signed value
\* frame_ts - hw_ts, computed without underflow or abort.
C8_FutureRecord ==
    (out.kind \in {"SYNCED", "PANIC"} /\ out.trigger[2] > out.v4l2_ts) =>
        /\ out.kind = "SYNCED"
        /\ out.trigger_type = "FUTURE"
        /\ out.best_score = 2 * (out.trigger[2] - out.v4l2_ts)
        /\ out.total_latency_ms = [overflow |-> FALSE,
                                   value |-> out.v4l2_ts - out.trigger[2]]

\* C9: after n > 100 consecutive pushes with no match in between, the queue
\* holds the last 100 pushed triggers and the n-th push reported the
\* eviction of the (n-100)-th.
C9_FifoEviction ==
    Len(run) > 100 =>
        /\ Ids(pending_triggers) = SubSeq(run, Len(run) - 99, Len(run))
        /\ out.kind \in {"HISTORICAL", "RECEIVED"} => out.dropped = run[Len(run) - 100]

\* C10: when the Live phase starts, every trigger the startup drain received
\* is in the pending queue, in every variant.
C10_ReplayQueued ==
    out.kind = "DRAINED" =>
        \A i \in 1..Len(received) :
            \E j \in 1..Len(pending_triggers) : pending_triggers[j][1] = received[i]

(***************************************************************************)
(* Vocabulary of the properties of the loop as a whole.                    *)
(***************************************************************************)
\* The Live phase: the loop is at its drain or at its frame.
Live == {"ingest", "capture"}

\* A step in which a frame was taken from the capture collaborator.
FrameTaken ==
    pc = "capture" /\ out'.kind \in {"SYNCED", "PANIC", "WARNING", "SKIPPED"}

\* A step in which receive() returned a trigger.
Received == received' # received

\* The trigger a Received step received.
Last(ids) == ids[Len(ids)]

\* A step of the publisher.
Published == global_trigger_id' # global_trigger_id

\* What a frame came to: unmatched, or the matched trigger id, its type, its
\* score and the cleaned count.
Outcome(o) ==
    IF o.kind \in {"SYNCED", "PANIC"}
    THEN <<"matched", o.trigger[1], o.trigger_type, o.best_score,
           o.removed_old_count>>
    ELSE IF o.kind = "WARNING" THEN <<"unmatched">> ELSE <<o.kind>>

\* C11: after each frame the pull loop takes, the push variant, fed the same
\* triggers and the same frame stamps, has reported the same outcome (matched
\* id, type, score and cleaned count, or unmatched) and holds the same queue.
C11_VariantsAgree ==
    twin.out.kind \in {"SYNCED", "PANIC", "WARNING"} =>
        /\ Outcome(out) = Outcome(twin.out)
        /\ pending_triggers = twin.pending_triggers

\* C12: when a frame is stamped and scored, no trigger the bus has delivered
\* is still waiting to be received: the drain that ended with "no event"
\* is not followed by a wait during which the publisher adds one.
C12_DrainedWhenScored == [][FrameScored => bus = <<>>]_vars

\* C13: a trigger received in the Live phase is a new one and enters the
\* queue once, at the back; triggers leave the queue only as the match of a
\* frame, as the triggers cleaned before that match, or as the one trigger a
\* push evicts at the front; a trigger that left is not in the queue again,
\* so that no id is in two synchronized records.
C13_OnceInOnceOut ==
    [][LET q == pending_triggers
       IN  /\ (Received /\ pc \in Live) =>
                 /\ \A i \in 1..Len(received) : received[i] # Last(received')
                 /\ \A i \in 1..Len(q) : q[i][1] # Last(received')
                 /\ out'.trigger[1] = Last(received')
                 /\ \/ /\ pending_triggers' = Append(q, out'.trigger)
                       /\ out'.dropped = 0
                    \/ /\ pending_triggers' = Tail(Append(q, out'.trigger))
                       /\ out'.dropped = q[1][1]
           /\ FrameMatched =>
                 \E k \in 1..Len(q) :
                     /\ q[k] = out'.trigger
                     /\ k = out'.match_index + 1
                     /\ pending_triggers' = SubSeq(q, k + 1, Len(q))
                     /\ \A i \in 1..Len(pending_triggers') :
                           pending_triggers'[i][1] # q[k][1]
           /\ (~FrameMatched /\ ~Received) => pending_triggers' = q
           /\ \A i \in 1..(Len(pending_triggers') - 1) :
                 pending_triggers'[i][1] < pending_triggers'[i + 1][1]
    ]_vars

\* A push evicted the front of a full queue in a run in which a frame had
\* been matched before.
C13_Witness ==
    /\ out.kind = "RECEIVED"
    /\ out.dropped # 0
    /\ last_synced # 0
    /\ Len(pending_triggers) = 100

\* C14: every frame taken in the Live phase yields one synchronized record
\* or one unmatched-frame warning that carries the frame's stamp: no frame is
\* taken without a matching attempt and its report.
C14_OneOutputPerFrame ==
    [][FrameTaken => out'.kind \in {"SYNCED", "WARNING"}]_vars

\* C15: the loop starts in Replay, leaves it for Live when the bus has no
\* more events, never comes back to Replay, and leaves Live only when a
\* collaborator returned an error.
C15_PhaseOrder ==
    [][/\ pc' = "replay" => pc = "replay"
       /\ (pc = "replay" /\ pc' # "replay" /\ out'.kind # "ERROR") =>
              (bus = <<>> /\ pc' = "ingest")
       /\ (pc \in Live /\ pc' \notin Live) => out'.kind = "ERROR"
    ]_vars

\* The loop is stopped: subscriber.rs has left main, or CameraApp is not
\* running.
Stopped == pc = "failed" \/ (variant = "push" /\ pc = "ingest" /\ ~is_running)

\* C16: a step that reports an error of the bus or of the capture leaves the
\* queue, the bus and the count of frames as they were and stops the loop;
\* while the loop is stopped no trigger is received and no frame is taken;
\* subscriber.rs stays stopped for good, CameraApp until Start is clicked.
C16_ErrorStops ==
    [][/\ (out'.kind = "ERROR" /\ ~Published /\ ~(is_running' /\ ~is_running)) =>
              /\ pending_triggers' = pending_triggers
              /\ received' = received
              /\ bus' = bus
              /\ trigger_count' = trigger_count
              /\ Stopped'
       /\ Stopped =>
              /\ pending_triggers' = pending_triggers
              /\ received' = received
              /\ trigger_count' = trigger_count
              /\ pc' = pc
              /\ out' = out
              /\ variant = "pull" => Stopped'
    ]_vars

\* capture_frame failed with triggers pending: CameraApp is stopped, the
\* error is on display and the queue is as it was.
C16_Witness ==
    /\ variant = "push"
    /\ out.kind = "ERROR"
    /\ ~is_running
    /\ Len(pending_triggers) = 2
    /\ trigger_count = 1

\* C16 as first stated: once an error was reported the loop has stopped for
\* good, no trigger is received and no frame is taken any more.
C16_StopsForGood ==
    [][out.kind = "ERROR" =>
          /\ pending_triggers' = pending_triggers
          /\ received' = received
          /\ trigger_count' = trigger_count
          /\ pc' = pc
    ]_vars

\* C17: a queued trigger is gone by the time the 100th trigger after it has
\* been received: fewer than 100 triggers were received after the oldest
\* trigger of the queue.
C17_RemovedWithin100 ==
    pending_triggers # <<>> =>
        \E p \in 1..Len(received) :
            /\ received[p] = pending_triggers[1][1]
            /\ Len(received) - p < 100

\* C18: the ids of the triggers published so far, in the order they were
\* sent, are 1, 2, 3, ...: the first is 1 and each is the one before plus one.
C18_IdsCountUp ==
    LET sent == received \o Ids(bus)
    IN  /\ Len(sent) = global_trigger_id
        /\ \A i \in 1..Len(sent) : sent[i] = i

\* Three triggers were published: two were received, one is on the bus.
C18_Witness ==
    /\ global_trigger_id = 3
    /\ Len(received) = 2
    /\ Len(bus) = 1

\* C19: in the Live phase the queue is, in order, the last Len(queue)
\* triggers received: a contiguous suffix of what the bus has delivered.
C19_ContiguousSuffix ==
    pc \in Live =>
        LET n == Len(received) - Len(pending_triggers)
        IN  /\ n >= 0
            /\ \A j \in 1..Len(pending_triggers) :
                  pending_triggers[j][1] = received[n + j]

\* A live push has just evicted the front of the full queue.
C19_Witness ==
    /\ pc = "ingest"
    /\ out.kind = "RECEIVED"
    /\ out.dropped # 0
    /\ Len(received) > Len(pending_triggers)

\* C20: the bus delivers ids in increasing order, and the id of a
\* synchronized record is greater than the id of the record before it.
C20_SyncedIdsIncrease ==
    [][(pc = "capture" /\ out'.kind = "SYNCED" /\ last_synced # 0) =>
          /\ \A i \in 1..(Len(received) - 1) : received[i] < received[i + 1]
          /\ out'.trigger[1] > last_synced
    ]_vars

\* The third trigger was matched at the front of the queue of the pull loop:
\* the two before it left with an earlier record.
C20_Witness ==
    /\ variant = "pull"
    /\ out.kind = "SYNCED"
    /\ out.trigger[1] = 3
    /\ out.match_index = 0
    /\ last_synced = 3

\* C21: the record of a match is computed without unsigned underflow: the
\* frame stamp is not less than the hardware stamp nor than the publish stamp
\* of the matched trigger, whatever stamps the matcher accepted.
C21_NoUnderflow ==
    out.kind \in {"SYNCED", "PANIC"} =>
        /\ out.v4l2_ts >= HwOf(out.trigger)
        /\ out.v4l2_ts >= PubOf(out.trigger)
        /\ ~out.total_latency_ms.overflow
        /\ ~out.v4l2_delay_ms.overflow

====
